---- MODULE Spec2Model ----
(***************************************************************************)
(* FinDash price feed and alerting pipeline.                               *)
(*                                                                         *)
(*   - AlertService.checkAlerts sweeps over the DatabaseService alert and  *)
(*     notification tables (backend);                                      *)
(*   - WebSocketServiceClass, the subscription hub of the frontend;        *)
(*   - CoinLayerService.getTimeSeries with its gap fill and the synthetic  *)
(*     generator generateRealisticHistoricalData (backend).                *)
(*                                                                         *)
(* Prices are fixed-point integers: one unit is 1/Scale of a dollar.       *)
(***************************************************************************)
EXTENDS Integers, Sequences, FiniteSets, TLC

VARIABLES
  \* ---- DatabaseService (in-memory tables) and AlertService sweeps
  userAlerts,          \* sequence of alert rows; the id of a row is its index
  userNotifications,   \* sequence of notification rows
  triggerEvents,       \* payloads handed to onAlertTriggered, in order
  storeFailures,       \* number of store calls that have thrown so far
  sweep,               \* per evaluator: the position and locals of checkAlerts
  \* ---- WebSocketServiceClass
  ws,                  \* this.ws: "null" or the readyState of the socket it holds
  orphans,             \* live sockets this.ws no longer holds: how many per readyState
  handlers,            \* this.handlers: symbol -> its Set of handlers, in insertion order
  subscribedSymbols,   \* this.subscribedSymbols
  reconnectTimeout,    \* this.reconnectTimeout: "none", "live" or "stale"
  lostTimers,          \* pending timers this.reconnectTimeout no longer names
  reconnectAttempts,   \* this.reconnectAttempts
  connecting,          \* this.connecting
  tokens,              \* the unsubscribe closures handed out so far
  hist,                \* history of the hub: counters and the last steps
  \* ---- CoinLayerService.getTimeSeries
  ts,                  \* position and locals of one getTimeSeries call
  \* ---- CoinLayerService.getLiveRates
  liveCall,            \* position, argument and outcome of one getLiveRates call
  \* ---- ratesToHistory (frontend) and the gap fill of getTimeSeries
  fill,                \* the series handed to the fill and what it returned
  \* ---- POST /api/alerts
  response,            \* the last request body and the status it was answered with
  \* ---- AlphaVantageService
  apiLimitReached,     \* this.apiLimitReached
  calls                \* per caller: the position and outcome of its call

alertVars == <<userAlerts, userNotifications, triggerEvents, storeFailures, sweep>>
hubVars == <<ws, orphans, handlers, subscribedSymbols, reconnectTimeout, lostTimers,
             reconnectAttempts, connecting, tokens, hist>>
seriesVars == <<ts>>
liveVars == <<liveCall>>
fillVars == <<fill>>
routeVars == <<response>>
alphaVars == <<apiLimitReached, calls>>
vars == <<alertVars, hubVars, seriesVars, liveVars, fillVars, routeVars, alphaVars>>

\* ------------------------------------------------------------------ numbers

Scale == 10^5                \* price units per dollar
Null == 0 - 1                \* JavaScript null / undefined / a key that is absent

Min(a, b) == IF a < b THEN a ELSE b
Max(a, b) == IF a > b THEN a ELSE b
Range(f) == {f[x] : x \in DOMAIN f}
Last(s) == s[Len(s)]

\* ------------------------------------------------------------- reference table

\* The symbols the model uses: four rows of the reference table of getMockRates
\* and one symbol ("ZZZ") that has no row.
Symbols == {"USD", "DOGE", "XRP", "SOL", "ZZZ"}

mockRates ==
  [s \in {"USD", "DOGE", "XRP", "SOL"} |->
     CASE s = "USD" -> 1 * Scale     \* 1.0
       [] s = "DOGE" -> 38000        \* 0.38
       [] s = "XRP" -> 285000        \* 2.85
       [] s = "SOL" -> 22840000]     \* 228.40

\* A rates object without keys.
NoRates == [s \in Symbols |-> Null]

\* getMockRates, a mutant: the whole table whatever was asked for
getMockRatesWholeTable(symbols) ==
  [s \in Symbols |-> IF s \in DOMAIN mockRates THEN mockRates[s] ELSE Null]

\* getMockRates(symbols): the whole table for an empty list; otherwise the table
\* rows of the requested symbols, a symbol without a row is absent.
getMockRates(symbols) ==
  IF symbols = {}
    THEN [s \in Symbols |-> IF s \in DOMAIN mockRates THEN mockRates[s] ELSE Null]
    ELSE [s \in Symbols |-> IF s \in symbols /\ s \in DOMAIN mockRates THEN mockRates[s] ELSE Null]

\* getLiveRates, a mutant: the failure is thrown again instead of answered
getLiveRatesRethrows(symbols, up) ==
  IF up.ok
    THEN [settled |-> "fulfilled", success |-> TRUE,
          rates |-> [s \in Symbols |-> IF s = "USD" /\ "USD" \in symbols THEN 1 * Scale
                                                                        ELSE up.rates[s]],
          mock |-> FALSE]
    ELSE [settled |-> "rejected", success |-> FALSE, rates |-> NoRates, mock |-> FALSE]

\* getLiveRates(symbols) for one upstream response: up.ok is FALSE for a failure
\* payload or a rejected fetch (both end in the catch), up.rates is the rates
\* object of a success payload. settled is the outcome of the returned promise.
getLiveRates(symbols, up) ==
  IF up.ok
    THEN [settled |-> "fulfilled", success |-> TRUE,
          rates |-> [s \in Symbols |-> IF s = "USD" /\ "USD" \in symbols THEN 1 * Scale
                                                                        ELSE up.rates[s]],
          mock |-> FALSE]
    ELSE [settled |-> "fulfilled", success |-> FALSE, rates |-> getMockRates(symbols),
          mock |-> TRUE]

\* ===================================================================== alerts

MaxAlerts == 2               \* alerts created through createAlert
MaxStoreFailures == 1        \* store calls that throw

\* Two checkAlerts calls, of one AlertService or of two that share the store.
Evaluators == {"A", "B"}
AlertSymbols == {"XRP", "SOL"}
Conditions == {"above", "below"}
AlertTargets == {2 * Scale}
LivePrices == {1 * Scale, 2 * Scale, 3 * Scale}

\* mock is the mock flag of the result of the sweep's getLiveRates call
IdleSweep == [pc |-> "idle", symbols |-> {}, rates |-> NoRates,
              alerts |-> <<>>, idx |-> 0, price |-> Null, mock |-> FALSE]

NoResponse == [status |-> 0, condition |-> "", targetValue |-> Null]

AlertInit ==
  /\ userAlerts = <<>>
  /\ userNotifications = <<>>
  /\ triggerEvents = <<>>
  /\ storeFailures = 0
  /\ sweep = [p \in Evaluators |-> IdleSweep]
  /\ response = NoResponse

\* DatabaseService.createAlert (in-memory): the row is appended with
\* id = max id + 1 and isActive = true.
createAlert(symbol, condition, targetValue) ==
  Append(userAlerts, [id |-> Len(userAlerts) + 1, symbol |-> symbol,
                      condition |-> condition, targetValue |-> targetValue,
                      isActive |-> TRUE])

\* parseFloat(targetValue) of a body value that is no number
NaN == 0 - 2

\* what a request body can hold: condition "" and targetValue Null are a field
\* that is missing, NaN is text that parseFloat cannot read
ConditionInputs == {"", "above", "below", "sideways"}
TargetInputs == {Null, NaN, 0 - Scale, 0, 2 * Scale}

\* router.post("/"), lines 55-74: the status the checks of the body lead to,
\* 201 when they all pass
validationStatus(symbol, condition, targetValue) ==
  IF symbol = "" \/ condition = "" \/ targetValue = Null THEN 400
  ELSE IF condition \notin Conditions THEN 400
  ELSE IF targetValue = NaN \/ targetValue < 0 THEN 400
  ELSE 201

\* router.post("/"), lines 44-95, for a request of a known user
CreateAlert(symbol, condition, targetValue) ==
  /\ UNCHANGED <<hubVars, seriesVars, liveVars, fillVars, alphaVars>>
  /\ Len(userAlerts) < MaxAlerts
  /\ LET status == validationStatus(symbol, condition, targetValue) IN
       /\ response' = [status |-> status, condition |-> condition, targetValue |-> targetValue]
       /\ IF status = 201
            THEN userAlerts' = createAlert(symbol, condition, targetValue)
            ELSE UNCHANGED userAlerts
  /\ UNCHANGED <<userNotifications, triggerEvents, storeFailures, sweep>>

\* POST /api/alerts with any body
RouteNext ==
  \E s \in AlertSymbols \cup {""}, c \in ConditionInputs, t \in TargetInputs : CreateAlert(s, c, t)

\* DatabaseService.getActiveAlertSymbols
getActiveAlertSymbols ==
  {userAlerts[i].symbol : i \in {j \in DOMAIN userAlerts : userAlerts[j].isActive}}

\* DatabaseService.getActiveAlertsBySymbols: a mutant that forgets the isActive filter
getAlertsBySymbolsAnyState(symbols) ==
  LET Keep(a) == a.symbol \in symbols IN SelectSeq(userAlerts, Keep)

\* DatabaseService.getActiveAlertsBySymbols
getActiveAlertsBySymbols(symbols) ==
  LET Keep(a) == a.isActive /\ a.symbol \in symbols IN SelectSeq(userAlerts, Keep)

\* DatabaseService.setAlertInactive (in-memory and SQL alike): unconditional
\* write of isActive = false to the row with that id.
setAlertInactive(alertId) ==
  [i \in DOMAIN userAlerts |->
     IF userAlerts[i].id = alertId THEN [userAlerts[i] EXCEPT !.isActive = FALSE]
                                   ELSE userAlerts[i]]

\* what setAlertInactive(alertId) returns: true when a row has that id (in-memory)
\* or the UPDATE matched a row (SQL), whatever isActive was
setAlertInactiveReturns(alertId) ==
  \E i \in DOMAIN userAlerts : userAlerts[i].id = alertId

\* DatabaseService.createNotification
createNotification(alertId) ==
  Append(userNotifications, [alertId |-> alertId])

\* AlertService.checkAlerts, lines 25-28, a mutant: equality does not trigger
triggeredStrict(alert, currentPrice) ==
  IF alert.condition = "above" THEN currentPrice > alert.targetValue
                               ELSE currentPrice < alert.targetValue

\* AlertService.checkAlerts, lines 25-28
triggered(alert, currentPrice) ==
  IF alert.condition = "above" THEN currentPrice >= alert.targetValue
                               ELSE currentPrice <= alert.targetValue

\* A store call may throw while the failure budget lasts.
MayFail == storeFailures < MaxStoreFailures

\* The catch of checkAlerts: the sweep ends.
Abort(p) ==
  /\ storeFailures' = storeFailures + 1
  /\ sweep' = [sweep EXCEPT ![p] = IdleSweep]

\* checkAlerts line 14-15. serial = TRUE is a scheduler that starts a sweep only
\* when none is in flight.
StartSweep(p, serial) ==
  /\ UNCHANGED <<hubVars, seriesVars, liveVars, fillVars, routeVars, alphaVars>>
  /\ sweep[p].pc = "idle"
  /\ serial => \A q \in Evaluators : sweep[q].pc = "idle"
  /\ LET symbols == getActiveAlertSymbols IN
       IF symbols = {}
         THEN sweep' = [sweep EXCEPT ![p] = IdleSweep]
         ELSE sweep' = [sweep EXCEPT ![p] = [IdleSweep EXCEPT !.pc = "rates", !.symbols = symbols]]
  /\ UNCHANGED <<userAlerts, userNotifications, triggerEvents, storeFailures>>

\* checkAlerts line 17-18, a mutant: the sweep goes on whenever the result has a
\* rates map, whatever its success flag
FetchRatesIgnoresSuccess(p) ==
  /\ UNCHANGED <<hubVars, seriesVars, liveVars, fillVars, routeVars, alphaVars>>
  /\ sweep[p].pc = "rates"
  /\ \E ok \in BOOLEAN, r \in [sweep[p].symbols -> LivePrices \cup {Null}] :
       LET result == getLiveRates(sweep[p].symbols,
                       [ok |-> ok, rates |-> [s \in Symbols |-> IF s \in sweep[p].symbols THEN r[s] ELSE Null]])
       IN sweep' = [sweep EXCEPT ![p].pc = "alerts", ![p].rates = result.rates,
                                 ![p].mock = result.mock]
  /\ UNCHANGED <<userAlerts, userNotifications, triggerEvents, storeFailures>>

\* checkAlerts line 17-18; the upstream answers for the symbols it was asked for
FetchRates(p) ==
  /\ UNCHANGED <<hubVars, seriesVars, liveVars, fillVars, routeVars, alphaVars>>
  /\ sweep[p].pc = "rates"
  /\ \E ok \in BOOLEAN, r \in [sweep[p].symbols -> LivePrices \cup {Null}] :
       LET result == getLiveRates(sweep[p].symbols,
                       [ok |-> ok, rates |-> [s \in Symbols |-> IF s \in sweep[p].symbols THEN r[s] ELSE Null]])
       IN IF ~result.success
            THEN sweep' = [sweep EXCEPT ![p] = [IdleSweep EXCEPT !.mock = result.mock]]
            ELSE sweep' = [sweep EXCEPT ![p].pc = "alerts", ![p].rates = result.rates,
                                        ![p].mock = result.mock]
  /\ UNCHANGED <<userAlerts, userNotifications, triggerEvents, storeFailures>>

\* checkAlerts line 20
FetchAlerts(p) ==
  /\ UNCHANGED <<hubVars, seriesVars, liveVars, fillVars, routeVars, alphaVars>>
  /\ sweep[p].pc = "alerts"
  /\ sweep' = [sweep EXCEPT ![p].pc = "eval", ![p].idx = 1,
                            ![p].alerts = getActiveAlertsBySymbols(sweep[p].symbols)]
  /\ UNCHANGED <<userAlerts, userNotifications, triggerEvents, storeFailures>>

\* checkAlerts lines 21-30: the head of one loop iteration
Evaluate(p) ==
  /\ UNCHANGED <<hubVars, seriesVars, liveVars, fillVars, routeVars, alphaVars>>
  /\ sweep[p].pc = "eval"
  /\ IF sweep[p].idx > Len(sweep[p].alerts)
       THEN sweep' = [sweep EXCEPT ![p] = IdleSweep]
       ELSE LET alert == sweep[p].alerts[sweep[p].idx]
                currentPrice == sweep[p].rates[alert.symbol]
            IN IF currentPrice = Null \/ ~triggered(alert, currentPrice)
                 THEN sweep' = [sweep EXCEPT ![p].idx = @ + 1]
                 ELSE sweep' = [sweep EXCEPT ![p].pc = "notify", ![p].price = currentPrice]
  /\ UNCHANGED <<userAlerts, userNotifications, triggerEvents, storeFailures>>

\* checkAlerts lines 36-40
Notify(p) ==
  /\ UNCHANGED <<hubVars, seriesVars, liveVars, fillVars, routeVars, alphaVars>>
  /\ sweep[p].pc = "notify"
  /\ \/ /\ userNotifications' =
             createNotification(sweep[p].alerts[sweep[p].idx].id)
        /\ sweep' = [sweep EXCEPT ![p].pc = "flip"]
        /\ UNCHANGED <<userAlerts, triggerEvents, storeFailures>>
     \/ /\ MayFail
        /\ Abort(p)
        /\ UNCHANGED <<userAlerts, userNotifications, triggerEvents>>

\* checkAlerts line 41
Flip(p) ==
  /\ UNCHANGED <<hubVars, seriesVars, liveVars, fillVars, routeVars, alphaVars>>
  /\ sweep[p].pc = "flip"
  /\ \/ /\ userAlerts' = setAlertInactive(sweep[p].alerts[sweep[p].idx].id)
        /\ sweep' = [sweep EXCEPT ![p].pc = "emit"]
        /\ UNCHANGED <<userNotifications, triggerEvents, storeFailures>>
     \/ /\ MayFail
        /\ Abort(p)
        /\ UNCHANGED <<userAlerts, userNotifications, triggerEvents>>

\* checkAlerts lines 43-55
Emit(p) ==
  /\ UNCHANGED <<hubVars, seriesVars, liveVars, fillVars, routeVars, alphaVars>>
  /\ sweep[p].pc = "emit"
  /\ triggerEvents' = Append(triggerEvents,
       [alertId |-> sweep[p].alerts[sweep[p].idx].id])
  /\ sweep' = [sweep EXCEPT ![p].pc = "eval", ![p].idx = @ + 1, ![p].price = Null]
  /\ UNCHANGED <<userAlerts, userNotifications, storeFailures>>

SweepStep(p, serial) ==
  \/ StartSweep(p, serial)
  \/ FetchRates(p)
  \/ FetchAlerts(p)
  \/ Evaluate(p)
  \/ Notify(p)
  \/ Flip(p)
  \/ Emit(p)

\* ======================================================================== hub

maxReconnectAttempts == 10
MaxSockets == 2              \* sockets of the hub that exist at one time
MaxLostTimers == 1           \* pending timers that reconnectTimeout no longer names
MaxTrace == 4                \* steps of the hub recorded one by one

HubSymbols == {"BTC", "ETH"}
Handlers == {"h1", "h2"}
ReadyStates == {"connecting", "open", "closing"}

NoHandlers == [s \in HubSymbols |-> <<>>]

\* Set.add and Set.delete on a Set kept in insertion order
setAdd(set, h) == IF h \in Range(set) THEN set ELSE Append(set, h)
setDelete(set, h) == LET Keep(x) == x # h IN SelectSeq(set, Keep)

\* the registrations whose deliveries the history logs
LogKeys == HubSymbols \X Handlers
NoLog == [k \in LogKeys |-> <<>>]
NoOrphans == [r \in ReadyStates |-> 0]
Step(op, sym, h, sock) == [op |-> op, sym |-> sym, h |-> h, sock |-> sock]
Message(type, symbols) == [type |-> type, symbols |-> symbols]

HubInit ==
  /\ ws = "null"
  /\ orphans = NoOrphans
  /\ handlers = NoHandlers
  /\ subscribedSymbols = {}
  /\ reconnectTimeout = "none"
  /\ lostTimers = 0
  /\ reconnectAttempts = 0
  /\ connecting = FALSE
  /\ tokens = {}
  /\ hist = [trace |-> <<>>,          \* the steps so far, while at most MaxTrace
             long |-> FALSE,          \* more than MaxTrace steps were taken
             sent |-> <<>>,           \* control messages the last step sent on this.ws
             invoked |-> <<>>,        \* handlers called by the last step, in call order
             due |-> NoLog,           \* per registration: the updates of the trace that
                                      \* arrived for its symbol while it was registered
             got |-> NoLog,           \* per registration: the updates of the trace that
                                      \* its handler was invoked with
             connects |-> 0,          \* new WebSocket calls within the trace
             subMsgs |-> 0,           \* "subscribe:rates" messages within the trace
             pristine |-> TRUE,       \* no socket has opened, the tracked set was
                                      \* never emptied, disconnect was never called
             autoConnects |-> 0,      \* sockets made by reconnect timers while pristine
             disconnected |-> FALSE,  \* disconnect() returned, no subscribe() since
             announced |-> {}]        \* within the trace: the symbols of the
                                      \* "subscribe:rates" messages sent on the socket
                                      \* this.ws holds, less those of its later
                                      \* "unsubscribe:rates" messages

\* What one step leaves in the history.
Record(step, sent, invoked, created, auto, pristine, disc) ==
  LET long == hist.long \/ Len(hist.trace) >= MaxTrace IN
  [trace |-> IF long THEN <<>> ELSE Append(hist.trace, step),
   long |-> long,
   sent |-> sent,
   invoked |-> invoked,
   due |-> IF long THEN NoLog
           ELSE IF step.op # "message" THEN hist.due
           ELSE [k \in LogKeys |->
                   IF k[1] = step.sym /\ k[2] \in Range(handlers[step.sym])
                     THEN Append(hist.due[k], Len(hist.trace) + 1) ELSE hist.due[k]],
   got |-> IF long THEN NoLog
           ELSE IF step.op # "message" THEN hist.got
           ELSE [k \in LogKeys |->
                   IF k[1] = step.sym /\ k[2] \in Range(invoked)
                     THEN Append(hist.got[k], Len(hist.trace) + 1) ELSE hist.got[k]],
   connects |-> IF long THEN 0 ELSE IF created THEN hist.connects + 1 ELSE hist.connects,
   subMsgs |-> IF long THEN 0
               ELSE IF sent # <<>> /\ sent[1].type = "subscribe:rates"
                 THEN hist.subMsgs + 1 ELSE hist.subMsgs,
   pristine |-> pristine,
   autoConnects |-> IF pristine /\ auto /\ created THEN hist.autoConnects + 1
                    ELSE IF pristine THEN hist.autoConnects ELSE 0,
   disconnected |-> disc,
   announced |-> LET base == IF created \/ step.op \in {"close", "disconnect"}
                               THEN {} ELSE hist.announced
                 IN IF long THEN {}
                    ELSE IF sent = <<>> THEN base
                    ELSE IF sent[1].type = "subscribe:rates" THEN base \cup sent[1].symbols
                    ELSE base \ sent[1].symbols]

\* The sockets the hub has created and whose close event is still to come.
LiveSockets ==
  (IF ws = "null" THEN 0 ELSE 1) + orphans["connecting"] + orphans["open"] + orphans["closing"]

\* The socket this.ws holds stops being referenced by the hub.
Orphaned(w) == IF w = "null" THEN orphans ELSE [orphans EXCEPT ![w] = @ + 1]

\* connect(), line 24: the early return
connectReturnsEarly == ws = "open" \/ connecting

\* connect(), lines 23-76: the socket is created in readyState CONNECTING and
\* replaces the one this.ws held
connect ==
  IF connectReturnsEarly
    THEN UNCHANGED <<ws, orphans, connecting>>
    ELSE /\ LiveSockets < MaxSockets
         /\ connecting' = TRUE
         /\ ws' = "connecting"
         /\ orphans' = Orphaned(ws)

\* sendSubscribeRates(), lines 78-89, when this.ws has readyState w and syms is tracked
sendSubscribeRates(w, syms) ==
  IF w # "open" \/ syms = {} THEN <<>>
  ELSE <<Message("subscribe:rates", syms)>>

\* sendUnsubscribeRates(symbols), lines 91-101
sendUnsubscribeRates(w, syms) ==
  IF w # "open" \/ syms = {} THEN <<>>
  ELSE <<Message("unsubscribe:rates", syms)>>

\* subscribe(symbol, handler), lines 103-116
Subscribe(symbol, handler) ==
  LET wasEmpty == subscribedSymbols = {}
      syms == subscribedSymbols \cup {symbol}
  IN /\ handlers' = [handlers EXCEPT ![symbol] = setAdd(@, handler)]
     /\ subscribedSymbols' = syms
     /\ tokens' = tokens \cup {<<symbol, handler>>}
     /\ IF wasEmpty
          THEN /\ connect
               /\ hist' = Record(Step("subscribe", symbol, handler, ""), <<>>, <<>>,
                                 ~connectReturnsEarly, FALSE, hist.pristine, FALSE)
          ELSE /\ UNCHANGED <<ws, orphans, connecting>>
               /\ hist' = Record(Step("subscribe", symbol, handler, ""),
                                 sendSubscribeRates(ws, syms), <<>>,
                                 FALSE, FALSE, hist.pristine, FALSE)
     /\ UNCHANGED <<reconnectTimeout, lostTimers, reconnectAttempts>>
     /\ UNCHANGED <<alertVars, seriesVars, liveVars, fillVars, routeVars, alphaVars>>

\* the closure subscribe returned, a mutant: the symbol is dropped and the
\* message sent without looking at handlers.size
UnsubscribeDropsSymbol(symbol, handler) ==
  /\ UNCHANGED <<alertVars, seriesVars, liveVars, fillVars, routeVars, alphaVars>>
  /\ <<symbol, handler>> \in tokens
  /\ handlers' = [handlers EXCEPT ![symbol] = setDelete(@, handler)]
  /\ subscribedSymbols' = subscribedSymbols \ {symbol}
  /\ hist' = Record(Step("unsubscribe", symbol, handler, ""),
                    sendUnsubscribeRates(ws, {symbol}),
                    <<>>, FALSE, FALSE, hist.pristine /\ subscribedSymbols' # {}, hist.disconnected)
  /\ UNCHANGED <<ws, orphans, connecting, reconnectTimeout, lostTimers, reconnectAttempts, tokens>>

\* The closures subscribe(symbol, handler) has returned within the trace: the
\* ones that were invoked, and how many are still to be invoked for the first time.
SpentTokens ==
  {<<hist.trace[i].sym, hist.trace[i].h>> :
     i \in {j \in 1..Len(hist.trace) : hist.trace[j].op = "unsubscribe"}}
FreshTokens(symbol, handler) ==
  Cardinality({i \in 1..Len(hist.trace) :
                 /\ hist.trace[i].op = "subscribe"
                 /\ hist.trace[i].sym = symbol /\ hist.trace[i].h = handler})
  - Cardinality({i \in 1..Len(hist.trace) :
                   /\ hist.trace[i].op = "unsubscribe" /\ hist.trace[i].sock = "fresh"
                   /\ hist.trace[i].sym = symbol /\ hist.trace[i].h = handler})

\* Which closure of (symbol, handler) a call can be a call of: one that was
\* never invoked or one that was; not told apart once the trace has ended.
tokenKinds(symbol, handler) ==
  IF hist.long \/ Len(hist.trace) >= MaxTrace THEN {""}
  ELSE (IF FreshTokens(symbol, handler) > 0 THEN {"fresh"} ELSE {})
       \cup (IF <<symbol, handler>> \in SpentTokens THEN {"spent"} ELSE {})

\* the closure subscribe returned for (symbol, handler), lines 118-128; every
\* closure of the pair captures the same two values and runs the same code
Unsubscribe(symbol, handler) ==
  /\ UNCHANGED <<alertVars, seriesVars, liveVars, fillVars, routeVars, alphaVars>>
  /\ <<symbol, handler>> \in tokens
  /\ LET left == setDelete(handlers[symbol], handler)
         last == handlers[symbol] # <<>> /\ left = <<>>
         syms == IF last THEN subscribedSymbols \ {symbol} ELSE subscribedSymbols
     IN /\ handlers' = [handlers EXCEPT ![symbol] = left]
        /\ subscribedSymbols' = syms
        /\ \E kind \in tokenKinds(symbol, handler) :
           hist' = Record(Step("unsubscribe", symbol, handler, kind),
                          IF last THEN sendUnsubscribeRates(ws, {symbol}) ELSE <<>>,
                          <<>>, FALSE, FALSE, hist.pristine /\ syms # {}, hist.disconnected)
  /\ UNCHANGED <<ws, orphans, connecting, reconnectTimeout, lostTimers, reconnectAttempts, tokens>>

\* disconnect(), lines 131-144; the socket it closes is CLOSING until its close
\* event is delivered
Disconnect ==
  /\ UNCHANGED <<alertVars, seriesVars, liveVars, fillVars, routeVars, alphaVars>>
  /\ reconnectTimeout' = "none"
  /\ reconnectAttempts' = maxReconnectAttempts
  /\ orphans' = IF ws = "null" THEN orphans ELSE [orphans EXCEPT !["closing"] = @ + 1]
  /\ ws' = "null"
  /\ handlers' = NoHandlers
  /\ subscribedSymbols' = {}
  /\ connecting' = FALSE
  /\ hist' = Record(Step("disconnect", "", "", ""), <<>>, <<>>, FALSE, FALSE, FALSE, TRUE)
  /\ UNCHANGED <<lostTimers, tokens>>

\* onopen, lines 32-36, of the socket this.ws holds (own) or of one it no longer holds
SocketOpen(own) ==
  /\ UNCHANGED <<alertVars, seriesVars, liveVars, fillVars, routeVars, alphaVars>>
  /\ IF own
       THEN ws = "connecting" /\ ws' = "open" /\ UNCHANGED orphans
       ELSE /\ orphans["connecting"] > 0
            /\ orphans' = [orphans EXCEPT !["connecting"] = @ - 1, !["open"] = @ + 1]
            /\ UNCHANGED ws
  /\ connecting' = FALSE
  /\ reconnectAttempts' = 0
  /\ hist' = Record(Step("open", "", "", IF own THEN "ws" ELSE "orphan"),
                    sendSubscribeRates(ws', subscribedSymbols), <<>>,
                    FALSE, FALSE, FALSE, hist.disconnected)
  /\ UNCHANGED <<handlers, subscribedSymbols, reconnectTimeout, lostTimers, tokens>>

\* the closing handshake of an open socket starts: readyState CLOSING, no callback
SocketClosing(own) ==
  /\ UNCHANGED <<alertVars, seriesVars, liveVars, fillVars, routeVars, alphaVars>>
  /\ IF own
       THEN ws = "open" /\ ws' = "closing" /\ UNCHANGED orphans
       ELSE /\ orphans["open"] > 0
            /\ orphans' = [orphans EXCEPT !["open"] = @ - 1, !["closing"] = @ + 1]
            /\ UNCHANGED ws
  /\ hist' = Record(Step("closing", "", "", IF own THEN "ws" ELSE "orphan"), <<>>, <<>>,
                    FALSE, FALSE, hist.pristine, hist.disconnected)
  /\ UNCHANGED <<handlers, subscribedSymbols, reconnectTimeout, lostTimers,
                 reconnectAttempts, connecting, tokens>>

\* onclose, line 62: is a reconnect scheduled? -- a mutant that allows one attempt more
scheduleOneMore == subscribedSymbols # {} /\ reconnectAttempts <= maxReconnectAttempts

\* onclose, line 62: is a reconnect scheduled?
schedulesReconnect == subscribedSymbols # {} /\ reconnectAttempts < maxReconnectAttempts

\* onclose, lines 59-68, of the socket this.ws holds (own) or of one it no longer
\* holds that had readyState r; this.ws = null drops whatever socket it held
SocketClose(own, r) ==
  /\ UNCHANGED <<alertVars, seriesVars, liveVars, fillVars, routeVars, alphaVars>>
  /\ IF own
       THEN ws = r /\ UNCHANGED orphans
       ELSE /\ orphans[r] > 0
            /\ orphans' = [Orphaned(ws) EXCEPT ![r] = @ - 1]
  /\ ws' = "null"
  /\ connecting' = FALSE
  /\ IF schedulesReconnect
       THEN /\ reconnectTimeout' = "live"
            /\ lostTimers' = IF reconnectTimeout = "live" THEN lostTimers + 1 ELSE lostTimers
            /\ lostTimers' <= MaxLostTimers
       ELSE UNCHANGED <<reconnectTimeout, lostTimers>>
  /\ hist' = Record(Step("close", "", "", IF own THEN "ws" ELSE "orphan"), <<>>, <<>>,
                    FALSE, FALSE, hist.pristine, hist.disconnected)
  /\ UNCHANGED <<handlers, subscribedSymbols, reconnectAttempts, tokens>>

\* the callback of a reconnect timer, lines 63-66; named = TRUE for the timer that
\* this.reconnectTimeout holds
TimerFire(named) ==
  /\ UNCHANGED <<alertVars, seriesVars, liveVars, fillVars, routeVars, alphaVars>>
  /\ IF named
       THEN reconnectTimeout = "live" /\ reconnectTimeout' = "stale" /\ UNCHANGED lostTimers
       ELSE lostTimers > 0 /\ lostTimers' = lostTimers - 1 /\ UNCHANGED reconnectTimeout
  /\ reconnectAttempts' = reconnectAttempts + 1
  /\ connect
  /\ hist' = Record(Step("timer", "", "", ""), <<>>, <<>>, ~connectReturnsEarly, TRUE,
                    hist.pristine, hist.disconnected)
  /\ UNCHANGED <<handlers, subscribedSymbols, tokens>>

\* handlers.forEach((h) => h(data)), line 51: the handlers called, in order; the
\* first one that throws ends the loop
RECURSIVE forEach(_, _)
forEach(set, throwing) ==
  IF set = <<>> THEN <<>>
  ELSE IF set[1] \in throwing THEN <<set[1]>>
  ELSE <<set[1]>> \o forEach(Tail(set), throwing)

\* onmessage, lines 38-57, with a "rate:update" for symbol, on the socket
\* this.ws holds (own) or on one it no longer holds; throwing are the handlers
\* that throw when called with this update
Deliver(own, symbol, throwing) ==
  /\ UNCHANGED <<alertVars, seriesVars, liveVars, fillVars, routeVars, alphaVars>>
  /\ IF own THEN ws = "open" ELSE orphans["open"] > 0
  /\ hist' = Record(Step("message", symbol, "", IF own THEN "ws" ELSE "orphan"), <<>>,
                    forEach(handlers[symbol], throwing), FALSE, FALSE,
                    hist.pristine, hist.disconnected)
  /\ UNCHANGED <<ws, orphans, handlers, subscribedSymbols, reconnectTimeout, lostTimers,
                 reconnectAttempts, connecting, tokens>>

HubNext ==
  \/ \E s \in HubSymbols, h \in Handlers : Subscribe(s, h)
  \/ \E s \in HubSymbols, h \in Handlers : Unsubscribe(s, h)
  \/ Disconnect
  \/ \E own \in BOOLEAN : SocketOpen(own)
  \/ \E own \in BOOLEAN : SocketClosing(own)
  \/ \E own \in BOOLEAN, r \in ReadyStates : SocketClose(own, r)
  \/ \E named \in BOOLEAN : TimerFire(named)
  \/ \E own \in BOOLEAN, s \in HubSymbols, throwing \in SUBSET Handlers : Deliver(own, s, throwing)

\* ===================================================================== series

MaxDays == 3                 \* calendar days the requests can span

\* Dates are month * 100 + day; the requests lie in a window that starts on
\* 30 January, so that ranges cross the end of a month.
daysInMonth(m) == IF m = 2 THEN 28 ELSE IF m \in {4, 6, 9, 11} THEN 30 ELSE 31

\* current.setDate(current.getDate() + 1), getDateRange line 583
nextDay(d) ==
  IF d % 100 < daysInMonth(d \div 100) THEN d + 1
  ELSE IF d \div 100 = 12 THEN 101 ELSE (d \div 100 + 1) * 100 + 1

RECURSIVE datesFrom(_, _)
datesFrom(current, end) ==
  IF current > end THEN <<>> ELSE <<current>> \o datesFrom(nextDay(current), end)

\* getDateRange(startDate, endDate), lines 570-587
getDateRange(startDate, endDate) == datesFrom(startDate, endDate)

RECURSIVE addDays(_, _)
addDays(d, n) == IF n = 0 THEN d ELSE addDays(nextDay(d), n - 1)

FirstDate == 100 + 30
Window == {addDays(FirstDate, n) : n \in 0..(MaxDays - 1)}

SeriesSymbols == {"DOGE", "SOL", "ZZZ"}
\* what an upstream payload can hold for one symbol and day: nothing or a value
\* that is not a number (Null), zero, or a price; two of the prices are closer
\* than the flatness epsilon
RawPrices == {1 * Scale, 1 * Scale + 500, 2 * Scale}
RawValues == {Null, 0} \cup RawPrices


\* the number test of getTimeFrameRates line 371 and getTimeSeries line 462
isValidRate(raw) == raw # Null /\ raw > 0

\* getTimeFrameRates, lines 357-379, for one upstream response: ok = FALSE is a
\* failure payload or a rejected fetch, data maps each date key of the payload
\* to the value it holds for the symbol. The result keeps the valid entries.
getTimeFrameRates(ok, data) ==
  IF ~ok THEN [d \in {} |-> Null]
  ELSE [d \in {k \in DOMAIN data : isValidRate(data[k])} |-> data[d]]

\* getHistoricalRates(date, [symbol]), lines 387-418: the value of
\* data.rates[symbol] that getTimeSeries reads; a failed call carries the
\* reference-table rates
getHistoricalRates(symbol, ok, raw) ==
  IF ok THEN [success |-> TRUE, rate |-> raw]
  ELSE [success |-> FALSE, rate |-> getMockRates({symbol})[symbol]]

\* ---- generateRealisticHistoricalData

\* lines 653-666: the range of dailyVolatility, in 1/10000
volatilityRange(symbol) ==
  IF symbol \in {"USD", "EUR", "GBP", "JPY", "CNY", "RUB"} THEN <<20, 50>>
  ELSE IF symbol \in {"USDT", "USDC"} THEN <<1, 10>>
  ELSE IF symbol \in {"BTC", "ETH"} THEN <<200, 500>>
  ELSE <<300, 800>>

\* floor(p * k / 10000) without leaving 32 bits
Frac(p, k) == (p \div 10000) * k + ((p % 10000) * k) \div 10000

\* lines 682-690: one step of the walk; r is the sign of the random term
walkStep(price, currentPrice, vol, dir, strength, r) ==
  LET trendChange == 0 - dir * Frac(price, strength)
      randomWalk == r * Frac(price, vol)
      meanReversion == ((currentPrice - price) * 5) \div 100
      next == price + trendChange + randomWalk + meanReversion
  IN Min(Max(next, currentPrice \div 2), (currentPrice * 18) \div 10)

\* lines 676-691, a mutant: the price is pushed after the step instead of before
RECURSIVE tempPricesPushLate(_, _, _, _, _, _, _)
tempPricesPushLate(n, price, currentPrice, vol, dir, strength, rs) ==
  IF n = 0 THEN <<>>
  ELSE LET next == walkStep(price, currentPrice, vol, dir, strength, rs[1])
       IN <<next>> \o tempPricesPushLate(n - 1, next, currentPrice, vol, dir, strength, Tail(rs))

\* lines 676-691: the prices from the last date back to the first
RECURSIVE tempPrices(_, _, _, _, _, _, _)
tempPrices(n, price, currentPrice, vol, dir, strength, rs) ==
  IF n = 0 THEN <<>>
  ELSE <<price>> \o tempPrices(n - 1, walkStep(price, currentPrice, vol, dir, strength, rs[1]),
                               currentPrice, vol, dir, strength, Tail(rs))

\* Number(x.toFixed(digits)): the nearest multiple of 10^-digits, halves up
toFixed(x, digits) ==
  LET q == Scale \div (10 ^ digits) IN ((x + q \div 2) \div q) * q

\* lines 696-698
precision(currentPrice) ==
  IF currentPrice < 1 * Scale THEN 4 ELSE IF currentPrice < 100 * Scale THEN 2 ELSE 0

Reverse(s) == [i \in 1..Len(s) |-> s[Len(s) + 1 - i]]

\* The random numbers of one generator call: draw.vol and draw.strength are
\* dailyVolatility and trendStrength (1/10000), draw.dir is trendDirection,
\* draw.rs the signs of the random term of every step.
Draws(symbol, n) ==
  [vol : {volatilityRange(symbol)[1], volatilityRange(symbol)[2]},
   dir : {1, 0 - 1},
   strength : {10, 30},
   rs : [1..n -> {0 - 1, 0, 1}]]

\* generateRealisticHistoricalData(symbol, dates, currentPrice), lines 649-702;
\* a later entry of dates overwrites an earlier one with the same date
generateRealisticHistoricalData(symbol, dates, currentPrice, draw) ==
  LET temp == Reverse(tempPrices(Len(dates), currentPrice, currentPrice,
                                 draw.vol, draw.dir, draw.strength, draw.rs))
      at(d) == CHOOSE i \in 1..Len(dates) :
                 dates[i] = d /\ \A j \in 1..Len(dates) : dates[j] = d => j <= i
  IN [d \in Range(dates) |-> toFixed(temp[at(d)], precision(currentPrice))]

\* ---- getTimeSeries

IdleSeries == [pc |-> "idle", symbol |-> "", dates |-> <<>>, liveRate |-> Null,
               rawRates |-> <<>>, success |-> FALSE, mock |-> FALSE, rates |-> <<>>,
               anchor |-> Null,      \* the price handed to the generator
               allFailed |-> TRUE,   \* history: no upstream call of this request succeeded
               dayOk |-> <<>>,       \* history: per day, did its historical call succeed
               filled |-> <<>>]      \* history: the rates of the days after the gap fill

SeriesInit == ts = IdleSeries

\* getTimeSeries lines 430-432, for a request with startDate <= endDate
CallGetTimeSeries ==
  /\ UNCHANGED <<alertVars, hubVars, liveVars, fillVars, routeVars, alphaVars>>
  /\ ts.pc = "idle"
  /\ \E symbol \in SeriesSymbols, startDate \in Window, endDate \in Window,
        preFetchedLiveRate \in {Null, 0, 2 * Scale} :
       /\ startDate <= endDate
       /\ ts' = [IdleSeries EXCEPT !.pc = "timeframe", !.symbol = symbol,
                                   !.dates = getDateRange(startDate, endDate),
                                   !.liveRate = preFetchedLiveRate]

\* lines 435-444: tier 1
TimeFrameTier ==
  /\ UNCHANGED <<alertVars, hubVars, liveVars, fillVars, routeVars, alphaVars>>
  /\ ts.pc = "timeframe"
  /\ \E ok \in BOOLEAN, data \in [Window -> RawValues] :
       LET timeframeRates == getTimeFrameRates(ok, data) IN
         IF DOMAIN timeframeRates # {}
           THEN ts' = [ts EXCEPT !.pc = "done", !.success = TRUE, !.rates = timeframeRates,
                                 !.allFailed = FALSE]
           ELSE ts' = [ts EXCEPT !.pc = IF ts.liveRate = Null THEN "live" ELSE "days",
                                 !.allFailed = @ /\ ~ok]

\* lines 447-455: the live rate that seeds the gap fill
LiveTier ==
  /\ UNCHANGED <<alertVars, hubVars, liveVars, fillVars, routeVars, alphaVars>>
  /\ ts.pc = "live"
  /\ \E ok \in BOOLEAN, raw \in RawValues :
       LET live == getLiveRates({ts.symbol},
                     [ok |-> ok, rates |-> [s \in Symbols |-> IF s = ts.symbol THEN raw ELSE Null]])
       IN ts' = [ts EXCEPT !.pc = "days", !.allFailed = @ /\ ~ok,
                           !.liveRate = IF live.rates[ts.symbol] # Null /\ live.rates[ts.symbol] > 0
                                          THEN live.rates[ts.symbol] ELSE Null]

\* lines 457-465: one iteration of the per-day loop
DayTier ==
  /\ UNCHANGED <<alertVars, hubVars, liveVars, fillVars, routeVars, alphaVars>>
  /\ ts.pc = "days"
  /\ Len(ts.rawRates) < Len(ts.dates)
  /\ \E ok \in BOOLEAN, raw \in RawValues :
       LET data == getHistoricalRates(ts.symbol, ok, raw) IN
         ts' = [ts EXCEPT !.rawRates = Append(@, IF isValidRate(data.rate) THEN data.rate ELSE Null),
                          !.allFailed = @ /\ ~ok,
                          !.dayOk = Append(@, data.success)]

\* lines 468-475: forward fill; rates[i] after the first i dates
RECURSIVE forwardFill(_, _)
forwardFill(rawRates, lastRate) ==
  IF rawRates = <<>> THEN <<>>
  ELSE LET last == IF rawRates[1] # Null THEN rawRates[1] ELSE lastRate
       IN <<last>> \o forwardFill(Tail(rawRates), last)

\* lines 477-486: backward fill, from the last date to the first
RECURSIVE backwardFill(_, _, _)
backwardFill(rawRates, rates, firstRate) ==
  IF rawRates = <<>> THEN <<>>
  ELSE LET n == Len(rawRates)
           first == IF rawRates[n] # Null THEN rawRates[n] ELSE firstRate
           value == IF first # Null /\ (rates[n] = Null \/ rates[n] <= 0) THEN first ELSE rates[n]
       IN backwardFill(SubSeq(rawRates, 1, n - 1), SubSeq(rates, 1, n - 1), first) \o <<value>>

\* lines 468-486, a mutant: the backward pass is left out
gapFillForwardOnly(rawRates, liveRate) == forwardFill(rawRates, liveRate)

\* lines 468-486
gapFill(rawRates, liveRate) == backwardFill(rawRates, forwardFill(rawRates, liveRate), liveRate)

\* lines 489-491; the epsilon 0.01 is Scale / 100
isFlat(rates) ==
  LET rateValues == SelectSeq(rates, isValidRate) IN
    /\ Len(rateValues) > 2
    /\ \A i \in 1..Len(rateValues) :
         rateValues[i] - rateValues[1] < Scale \div 100 /\ rateValues[1] - rateValues[i] < Scale \div 100

\* line 495
hasMissingData(rates) == \E i \in 1..Len(rates) : ~isValidRate(rates[i])

\* lines 467-512: gap fill, degradation check and the result
FinishTimeSeries ==
  /\ UNCHANGED <<alertVars, hubVars, liveVars, fillVars, routeVars, alphaVars>>
  /\ ts.pc = "days"
  /\ Len(ts.rawRates) = Len(ts.dates)
  /\ LET rates == gapFill(ts.rawRates, ts.liveRate)
         mockRate == getMockRates({ts.symbol})[ts.symbol]
         degraded == hasMissingData(rates) \/ isFlat(rates)
     IN IF degraded /\ mockRate # Null
          THEN \E draw \in Draws(ts.symbol, Len(ts.dates)) :
                 ts' = [ts EXCEPT !.pc = "done", !.success = TRUE, !.mock = TRUE,
                          !.filled = rates, !.anchor = mockRate,
                          !.rates = generateRealisticHistoricalData(ts.symbol, ts.dates, mockRate, draw)]
          ELSE ts' = [ts EXCEPT !.pc = "done", !.success = TRUE, !.mock = degraded,
                        !.filled = rates,
                        !.rates = [d \in Range(ts.dates) |->
                                     rates[CHOOSE i \in 1..Len(ts.dates) : ts.dates[i] = d]]]

\* generateRealisticHistoricalData called on its own, with any positive anchor
GenSymbols == {"EUR", "USDT", "BTC", "DOGE"}
AnchorPrices == {4, 12346, 38000, 99996, 285000, 785600, 10450000, 22840000}

CallGenerate ==
  /\ UNCHANGED <<alertVars, hubVars, liveVars, fillVars, routeVars, alphaVars>>
  /\ ts.pc = "idle"
  /\ \E symbol \in GenSymbols, startDate \in Window, endDate \in Window,
        currentPrice \in AnchorPrices, twice \in BOOLEAN :
       /\ startDate <= endDate
       /\ LET range == getDateRange(startDate, endDate)
              dates == IF twice THEN range \o <<Last(range)>> ELSE range
          IN \E draw \in Draws(symbol, Len(dates)) :
               ts' = [IdleSeries EXCEPT !.pc = "generated", !.symbol = symbol, !.dates = dates,
                        !.anchor = currentPrice,
                        !.rates = generateRealisticHistoricalData(symbol, dates, currentPrice, draw)]

SeriesNext ==
  \/ CallGetTimeSeries
  \/ TimeFrameTier
  \/ LiveTier
  \/ DayTier
  \/ FinishTimeSeries
  \/ CallGenerate

\* ======================================================================= fill

MaxPoints == 3               \* entries of a rates array or map

FillDates == 1..MaxPoints    \* days of one month
ArrayRates == {0 - Scale, 0, 1 * Scale, 2 * Scale}
MapRates == {Null} \cup ArrayRates
SeqsUpTo(S, n) == UNION {[1..k -> S] : k \in 0..n}

\* new Date(date).getTime(): milliseconds, one day is 86400000
getTime(date) == date * 86400000

\* part_004 lines 45-48: the points of an array input, in the order of the array
arrayPoints(rates) ==
  [i \in 1..Len(rates) |-> [timestamp |-> getTime(rates[i].date), price |-> rates[i].rate]]

\* part_004 lines 50-55: the points of a map input; null entries are dropped, the
\* keys come in the order of the object
RECURSIVE entriesFrom(_, _)
entriesFrom(rates, date) ==
  IF date \notin DOMAIN rates THEN <<>>
  ELSE (IF rates[date] = Null THEN <<>>
        ELSE <<[timestamp |-> getTime(date), price |-> rates[date]]>>)
       \o entriesFrom(rates, date + 1)
mapPoints(rates) == entriesFrom(rates, 1)

\* points.sort((a, b) => a.timestamp - b.timestamp), line 57: a stable sort
RECURSIVE insertPoint(_, _)
insertPoint(sorted, p) ==
  IF sorted = <<>> THEN <<p>>
  ELSE IF Last(sorted).timestamp <= p.timestamp THEN Append(sorted, p)
  ELSE Append(insertPoint(SubSeq(sorted, 1, Len(sorted) - 1), p), Last(sorted))
RECURSIVE sortPoints(_)
sortPoints(points) ==
  IF points = <<>> THEN <<>>
  ELSE insertPoint(sortPoints(SubSeq(points, 1, Len(points) - 1)), Last(points))

\* lines 60-64, a mutant: the else is lost, a good price is overwritten too
RECURSIVE fillLoopOverwrites(_, _)
fillLoopOverwrites(points, lastGood) ==
  IF points = <<>> THEN <<>>
  ELSE LET good == IF points[1].price > 0 THEN points[1].price ELSE lastGood
           p == IF lastGood > 0 THEN [points[1] EXCEPT !.price = lastGood] ELSE points[1]
       IN <<p>> \o fillLoopOverwrites(Tail(points), good)

\* lines 60-64: one pass over the points with lastGood; the second pass
\* (lines 65-69) is the same loop over the points in reverse
RECURSIVE fillLoop(_, _)
fillLoop(points, lastGood) ==
  IF points = <<>> THEN <<>>
  ELSE IF points[1].price > 0
         THEN <<points[1]>> \o fillLoop(Tail(points), points[1].price)
  ELSE IF lastGood > 0
         THEN <<[points[1] EXCEPT !.price = lastGood]>> \o fillLoop(Tail(points), lastGood)
  ELSE <<points[1]>> \o fillLoop(Tail(points), lastGood)

\* ratesToHistory, lines 57-71, from the points on
historyOf(points) == Reverse(fillLoop(Reverse(fillLoop(sortPoints(points), 0)), 0))

\* ratesToHistory(rates), lines 40-72
ratesToHistory(isArray, rates) ==
  IF isArray THEN historyOf(arrayPoints(rates)) ELSE historyOf(mapPoints(rates))

\* a history handed to ratesToHistory again, as the array it is
asRatesArray(history) ==
  [i \in 1..Len(history) |-> [date |-> history[i].timestamp \div 86400000,
                              rate |-> history[i].price]]

IdleFill == [pc |-> "idle", kind |-> "", array |-> <<>>, map |-> <<>>, liveRate |-> Null,
             history |-> <<>>, historyAgain |-> <<>>, rates |-> <<>>, ratesAgain |-> <<>>]

FillInit == fill = IdleFill

\* ratesToHistory with the array form of the rates
CallRatesToHistoryArray ==
  /\ UNCHANGED <<alertVars, hubVars, seriesVars, liveVars, routeVars, alphaVars>>
  /\ fill.pc = "idle"
  /\ \E rates \in SeqsUpTo([date : FillDates, rate : ArrayRates], MaxPoints) :
       LET history == ratesToHistory(TRUE, rates) IN
         fill' = [IdleFill EXCEPT !.pc = "done", !.kind = "array", !.array = rates,
                    !.history = history,
                    !.historyAgain = ratesToHistory(TRUE, asRatesArray(history))]

\* ratesToHistory with the object form of the rates
CallRatesToHistoryMap ==
  /\ UNCHANGED <<alertVars, hubVars, seriesVars, liveVars, routeVars, alphaVars>>
  /\ fill.pc = "idle"
  /\ \E n \in 0..MaxPoints : \E rates \in [1..n -> MapRates] :
       LET history == ratesToHistory(FALSE, rates) IN
         fill' = [IdleFill EXCEPT !.pc = "done", !.kind = "map", !.map = rates,
                    !.history = history,
                    !.historyAgain = ratesToHistory(TRUE, asRatesArray(history))]

\* the gap fill of getTimeSeries, lines 467-486, on the per-day values of the loop
CallGapFill ==
  /\ UNCHANGED <<alertVars, hubVars, seriesVars, liveVars, routeVars, alphaVars>>
  /\ fill.pc = "idle"
  /\ \E rawRates \in SeqsUpTo({Null} \cup RawPrices, MaxPoints), liveRate \in {Null, 3 * Scale} :
       LET rates == gapFill(rawRates, liveRate) IN
         fill' = [IdleFill EXCEPT !.pc = "done", !.kind = "backend", !.array = rawRates,
                    !.liveRate = liveRate, !.rates = rates,
                    !.ratesAgain = gapFill(rates, liveRate)]

FillReturns ==
  /\ UNCHANGED <<alertVars, hubVars, seriesVars, liveVars, routeVars, alphaVars>>
  /\ fill.pc = "done"
  /\ fill' = IdleFill

FillNext ==
  \/ CallRatesToHistoryArray
  \/ CallRatesToHistoryMap
  \/ CallGapFill
  \/ FillReturns

\* ================================================================= live rates

LiveRequests == SUBSET {"USD", "XRP", "ZZZ"}
Upstream == {"success", "failure", "reject"}
\* the rates object of an upstream success payload
LivePayloads == [Symbols -> {Null, 2 * Scale}]

IdleLive == [pc |-> "idle", symbols |-> {}, upstream |-> "", payload |-> NoRates,
             result |-> [settled |-> "pending", success |-> FALSE, rates |-> NoRates,
                         mock |-> FALSE]]

LiveInit == liveCall = IdleLive

\* getLiveRates(symbols) is called, lines 309-319
CallGetLiveRates ==
  /\ UNCHANGED <<alertVars, hubVars, seriesVars, fillVars, routeVars, alphaVars>>
  /\ liveCall.pc = "idle"
  /\ \E symbols \in LiveRequests :
       liveCall' = [IdleLive EXCEPT !.pc = "fetch", !.symbols = symbols]

\* lines 319-350: the upstream answers and the call settles
UpstreamAnswers ==
  /\ UNCHANGED <<alertVars, hubVars, seriesVars, fillVars, routeVars, alphaVars>>
  /\ liveCall.pc = "fetch"
  /\ \E upstream \in Upstream, payload \in LivePayloads :
       /\ upstream # "success" => payload = NoRates
       /\ liveCall' = [liveCall EXCEPT !.pc = "done", !.upstream = upstream, !.payload = payload,
                      !.result = getLiveRates(liveCall.symbols,
                                              [ok |-> upstream = "success", rates |-> payload])]

\* the caller has the result; the next call can start
LiveReturns ==
  /\ UNCHANGED <<alertVars, hubVars, seriesVars, fillVars, routeVars, alphaVars>>
  /\ liveCall.pc = "done"
  /\ liveCall' = IdleLive

LiveNext ==
  \/ CallGetLiveRates
  \/ UpstreamAnswers
  \/ LiveReturns

\* ============================================================== AlphaVantage

\* Two calls of one AlphaVantageService instance can be in flight together.
Callers == {"c1", "c2"}
Operations == {"getQuote", "getTimeSeries", "searchSymbol"}

\* What the upstream does with one request: a payload with the data asked for
\* ("data"), a payload with an "Error Message" or "Note" whose text has "limit",
\* "premium" or "frequency" ("limit"), one whose text has none of them
\* ("error"), a payload without the data and without a message ("empty"), or a
\* fetch that rejects ("reject").
Responses == {"data", "limit", "error", "empty", "reject"}

NoResult == [success |-> FALSE, mock |-> FALSE]
IdleCall == [pc |-> "idle", op |-> "", fetched |-> FALSE, resp |-> "", result |-> NoResult]

\* constructor, line 9
AlphaInit ==
  /\ apiLimitReached = FALSE
  /\ calls = [c \in Callers |-> IdleCall]

\* lines 20-26, 84-91, 160-166: the result of a call that finds the flag set
skippedResult(op) == [success |-> TRUE, mock |-> TRUE]

\* lines 33-72, 111-149, 173-208: the result of a call whose fetch ended with
\* resp; search has no empty-payload error (line 183)
fetchedResult(op, resp) ==
  IF resp = "data" \/ (resp = "empty" /\ op = "searchSymbol")
    THEN [success |-> TRUE, mock |-> FALSE]
    ELSE [success |-> FALSE, mock |-> TRUE]

\* lines 36-39, a mutant: a payload that is no rate-limit answer clears the flag
limitAfterResets(flag, resp) == resp = "limit"

\* lines 36-39, 114-117, 176-179: the flag after a response
limitAfter(flag, resp) == flag \/ resp = "limit"

\* getQuote, getTimeSeries or searchSymbol is called: up to the fetch, or to
\* the return when the flag is set
AlphaCall(c, op) ==
  /\ UNCHANGED <<alertVars, hubVars, seriesVars, liveVars, fillVars, routeVars>>
  /\ calls[c].pc = "idle"
  /\ IF apiLimitReached
       THEN calls' = [calls EXCEPT ![c] = [IdleCall EXCEPT !.pc = "done", !.op = op,
                                                          !.result = skippedResult(op)]]
       ELSE calls' = [calls EXCEPT ![c] = [IdleCall EXCEPT !.pc = "fetch", !.op = op,
                                                          !.fetched = TRUE]]
  /\ UNCHANGED apiLimitReached

\* the fetch of a call settles: from the await to the return
AlphaResponse(c, resp) ==
  /\ UNCHANGED <<alertVars, hubVars, seriesVars, liveVars, fillVars, routeVars>>
  /\ calls[c].pc = "fetch"
  /\ apiLimitReached' = limitAfter(apiLimitReached, resp)
  /\ calls' = [calls EXCEPT ![c].pc = "done", ![c].resp = resp,
                            ![c].result = fetchedResult(calls[c].op, resp)]

\* the caller has the result and can call again
AlphaReturn(c) ==
  /\ UNCHANGED <<alertVars, hubVars, seriesVars, liveVars, fillVars, routeVars>>
  /\ calls[c].pc = "done"
  /\ calls' = [calls EXCEPT ![c] = IdleCall]
  /\ UNCHANGED apiLimitReached

AlphaNext ==
  \/ \E c \in Callers, op \in Operations : AlphaCall(c, op)
  \/ \E c \in Callers, resp \in Responses : AlphaResponse(c, resp)
  \/ \E c \in Callers : AlphaReturn(c)

\* ============================================================= specifications

Init == AlertInit /\ HubInit /\ SeriesInit /\ LiveInit /\ FillInit /\ AlphaInit

\* sweeps started by a scheduler that waits for the sweep in flight
NextSerial ==
  \/ \E p \in Evaluators : SweepStep(p, TRUE)
  \/ \E s \in AlertSymbols, c \in Conditions, t \in AlertTargets : CreateAlert(s, c, t)

\* sweeps started whenever their timer fires
NextConcurrent ==
  \/ \E p \in Evaluators : SweepStep(p, FALSE)
  \/ \E s \in AlertSymbols, c \in Conditions, t \in AlertTargets : CreateAlert(s, c, t)

SpecSerialSweeps == Init /\ [][NextSerial]_vars
SpecConcurrentSweeps == Init /\ [][NextConcurrent]_vars
SpecHub == Init /\ [][HubNext]_vars
SpecSeries == Init /\ [][SeriesNext]_vars
SpecLive == Init /\ [][LiveNext]_vars
SpecFill == Init /\ [][FillNext]_vars
SpecRoute == Init /\ [][RouteNext]_vars
SpecAlpha == Init /\ [][AlphaNext]_vars

Next ==
  NextConcurrent \/ HubNext \/ SeriesNext \/ LiveNext \/ FillNext \/ RouteNext \/ AlphaNext
Spec == Init /\ [][Next]_vars

\* ===================================================================== claims

NotificationsOf(alertId) ==
  Cardinality({i \in DOMAIN userNotifications : userNotifications[i].alertId = alertId})
EventsOf(alertId) ==
  Cardinality({i \in DOMAIN triggerEvents : triggerEvents[i].alertId = alertId})
AllIdle == \A p \in Evaluators : sweep[p].pc = "idle"
Crossed(alert, rates) == rates[alert.symbol] # Null /\ triggered(alert, rates[alert.symbol])

\* C1: when sweeps do not overlap, rate fetches succeed and no store call throws,
\* every alert has at most one Notification and one trigger event; an alert that
\* a sweep has passed with its threshold crossed has exactly one Notification,
\* one event and is inactive; an inactive alert has exactly one Notification, so
\* no later sweep adds one whatever price it observes.
C1_OneShotWhenSerial ==
  storeFailures = 0 =>
    /\ \A a \in DOMAIN userAlerts :
         /\ NotificationsOf(a) <= 1
         /\ EventsOf(a) <= 1
         /\ ~userAlerts[a].isActive => NotificationsOf(a) = 1
         /\ AllIdle /\ NotificationsOf(a) = 1 => ~userAlerts[a].isActive /\ EventsOf(a) = 1
    /\ \A p \in Evaluators :
         sweep[p].pc = "eval" =>
           \A k \in 1..Min(sweep[p].idx - 1, Len(sweep[p].alerts)) :
             Crossed(sweep[p].alerts[k], sweep[p].rates) =>
               /\ NotificationsOf(sweep[p].alerts[k].id) = 1
               /\ EventsOf(sweep[p].alerts[k].id) = 1
               /\ ~userAlerts[sweep[p].alerts[k].id].isActive

\* A later sweep has run through its alerts with a price that crosses the
\* threshold of an alert that an earlier sweep triggered.
C1_Witness ==
  /\ storeFailures = 0
  /\ \E a \in DOMAIN userAlerts, p \in Evaluators :
       /\ ~userAlerts[a].isActive
       /\ NotificationsOf(a) = 1
       /\ EventsOf(a) = 1
       /\ sweep[p].pc = "eval"
       /\ sweep[p].idx > Len(sweep[p].alerts)
       /\ Crossed(userAlerts[a], sweep[p].rates)
       /\ \A k \in 1..Len(sweep[p].alerts) : sweep[p].alerts[k].id # a

\* C2: when two sweeps interleave at their await points and no store call
\* throws, an alert is triggered at most once: at most one Notification and at
\* most one trigger event exist for it.
C2_OneShotWhenInterleaved ==
  storeFailures = 0 =>
    \A a \in DOMAIN userAlerts : NotificationsOf(a) <= 1 /\ EventsOf(a) <= 1

\* C3: the rates map getTimeSeries returns has exactly the calendar days of the
\* range as keys and a number > 0 for each, whichever tier produced it.
C3_OnePositivePricePerDay ==
  ts.pc = "done" =>
    /\ DOMAIN ts.rates = Range(ts.dates)
    /\ \A d \in DOMAIN ts.rates : isValidRate(ts.rates[d])

\* C4: when every upstream call of a request fails, getTimeSeries returns a
\* successful result whose rates map has a non-null value for every day of the
\* range, also for a symbol without a reference price.
C4_PopulatedWhenUpstreamFails ==
  ts.pc = "done" /\ ts.allFailed =>
    /\ ts.success
    /\ DOMAIN ts.rates = Range(ts.dates)
    /\ \A d \in DOMAIN ts.rates : ts.rates[d] # Null

IsSubscribe(step, symbol) == step.op = "subscribe" /\ step.sym = symbol
TwoSubscribesAndOpen(symbol) ==
  /\ ~hist.long
  /\ Len(hist.trace) = 3
  /\ \E i, j, k \in 1..3 :
       /\ {i, j, k} = 1..3
       /\ i < j
       /\ IsSubscribe(hist.trace[i], symbol)
       /\ IsSubscribe(hist.trace[j], symbol)
       /\ hist.trace[i].h # hist.trace[j].h
       /\ hist.trace[k].op = "open"

\* C5: on a fresh hub, subscribe(S, h1), subscribe(S, h2) with h1 # h2 and the
\* open event of the connection, in any order, make exactly one connection and
\* exactly one "subscribe:rates" message.
C5_OneConnectOneSubscribeMessage ==
  \A symbol \in HubSymbols :
    TwoSubscribesAndOpen(symbol) => hist.connects = 1 /\ hist.subMsgs = 1

OnlyTracked(s) == \A r \in HubSymbols \ {s} : handlers[r] = <<>>

\* C6: on an open connection, the unsubscribe token of a handler that is not the
\* last one of its symbol removes only that handler, keeps the symbol tracked and
\* sends nothing; the token of the last handler sends exactly one
\* "unsubscribe:rates" message listing only that symbol and removes the symbol
\* from the tracked set and the handler map (both empty when no other symbol is
\* registered); an update for a symbol that has one handler left invokes that
\* handler.
C6_UnsubscribeToken ==
  [][/\ \A s \in HubSymbols, h \in Handlers :
          (ws = "open" /\ h \in Range(handlers[s]) /\ Unsubscribe(s, h)) =>
            /\ Range(handlers'[s]) = Range(handlers[s]) \ {h}
            /\ \A r \in HubSymbols \ {s} : handlers'[r] = handlers[r]
            /\ IF Range(handlers[s]) # {h}
                 THEN /\ subscribedSymbols' = subscribedSymbols
                      /\ s \in subscribedSymbols'
                      /\ hist'.sent = <<>>
                 ELSE /\ subscribedSymbols' = subscribedSymbols \ {s}
                      /\ hist'.sent = <<Message("unsubscribe:rates", {s})>>
                      /\ OnlyTracked(s) => subscribedSymbols' = {} /\ handlers' = NoHandlers
     /\ \A own \in BOOLEAN, s \in HubSymbols, throwing \in SUBSET Handlers :
          (Len(handlers[s]) = 1 /\ Deliver(own, s, throwing)) =>
            hist'.invoked = handlers[s] /\ handlers' = handlers
    ]_vars

\* Two handlers were registered for a symbol; on an open connection the token of
\* the last of them has just been invoked and has sent the message.
C6_Witness ==
  \E s \in HubSymbols :
    /\ {<<s, "h1">>, <<s, "h2">>} \subseteq tokens
    /\ ws = "open"
    /\ hist.sent = <<Message("unsubscribe:rates", {s})>>
    /\ subscribedSymbols = {}
    /\ handlers = NoHandlers

NoTimerPending == reconnectTimeout # "live" /\ lostTimers = 0

\* C7: while no socket has ever opened and the tracked set has stayed non-empty
\* since the first subscribe, reconnect timers make at most maxReconnectAttempts
\* connections; when the last of them has closed no timer is pending; the
\* tracked symbols and their handlers stay registered.
C7_BoundedReconnects ==
  hist.pristine =>
    /\ hist.autoConnects <= maxReconnectAttempts
    /\ (hist.autoConnects = maxReconnectAttempts /\ ws = "null") => NoTimerPending
    /\ (hist.long \/ hist.trace # <<>>) =>
         /\ subscribedSymbols # {}
         /\ \A s \in HubSymbols : s \in subscribedSymbols <=> handlers[s] # <<>>

\* The budget is used up: the tenth automatic connection has closed.
C7_Witness ==
  /\ hist.pristine
  /\ hist.autoConnects = maxReconnectAttempts
  /\ LiveSockets = 0
  /\ subscribedSymbols # {}
  /\ NoTimerPending

ReconnectStopped ==
  /\ ws = "null"
  /\ ~connecting
  /\ NoTimerPending
  /\ reconnectAttempts >= maxReconnectAttempts

\* C8: once automatic reconnection has stopped, a subscribe() call resets the
\* attempt counter and starts a connection attempt.
C8_SubscribeResumesReconnects ==
  [][\A s \in HubSymbols, h \in Handlers :
       (ReconnectStopped /\ Subscribe(s, h)) => reconnectAttempts' = 0 /\ connecting'
    ]_vars

\* C9: between the return of disconnect() and the next subscribe() no reconnect
\* timer is pending and the handler map and the tracked set are empty.
C9_QuietAfterDisconnect ==
  hist.disconnected =>
    /\ NoTimerPending
    /\ subscribedSymbols = {}
    /\ handlers = NoHandlers

\* the anchor rounded as the claim states it: to 4 decimals below 1, to 2 below
\* 100, to an integer otherwise
RoundedAnchor(anchor) ==
  LET unit == IF anchor < Scale THEN Scale \div 10000
              ELSE IF anchor < 100 * Scale THEN Scale \div 100 ELSE Scale
  IN CHOOSE v \in (anchor - unit)..(anchor + unit) :
       /\ v % unit = 0
       /\ 2 * (v - anchor) <= unit
       /\ 2 * (anchor - v) < unit

\* C10: the value generateRealisticHistoricalData returns for the last date is
\* the anchor price rounded to the generator's precision; a single-date list
\* yields that value alone.
C10_EndsAtAnchor ==
  ts.pc = "generated" =>
    /\ ts.rates[Last(ts.dates)] = RoundedAnchor(ts.anchor)
    /\ Len(ts.dates) = 1 => Range(ts.rates) = {RoundedAnchor(ts.anchor)}

\* A generated series over several days that moved away from the anchor and
\* ends at an anchor that the rounding changes.
C10_Witness ==
  /\ ts.pc = "generated"
  /\ Len(ts.dates) > 1
  /\ ts.rates[ts.dates[1]] # ts.rates[Last(ts.dates)]
  /\ ts.rates[Last(ts.dates)] # ts.anchor

WholeTable == [s \in Symbols |-> IF s \in DOMAIN mockRates THEN mockRates[s] ELSE Null]
ReferencePricesOf(symbols) ==
  [s \in Symbols |-> IF s \in symbols /\ s \in DOMAIN mockRates THEN mockRates[s] ELSE Null]

\* C11 as stated: getLiveRates never rejects, whether the upstream succeeds,
\* answers with a failure payload or the fetch rejects, and for an empty symbol
\* list the rates map it returns is empty.
C11_NeverThrowsEmptyForEmpty ==
  liveCall.pc = "done" =>
    /\ liveCall.result.settled = "fulfilled"
    /\ liveCall.symbols = {} => liveCall.result.rates = NoRates

\* C11 amended: getLiveRates never rejects, whatever the upstream does; for an
\* empty symbol list it returns the rates of the upstream payload when the
\* upstream succeeds and the whole reference table when it fails.
C11_NeverThrows ==
  liveCall.pc = "done" =>
    /\ liveCall.result.settled = "fulfilled"
    /\ liveCall.symbols = {} =>
         liveCall.result.rates = IF liveCall.upstream = "success" THEN liveCall.payload
                                                                ELSE WholeTable

\* A call with an empty list whose fetch rejected has returned the table.
C11_Witness ==
  /\ liveCall.pc = "done"
  /\ liveCall.symbols = {}
  /\ liveCall.upstream = "reject"
  /\ liveCall.result.settled = "fulfilled"
  /\ liveCall.result.rates["XRP"] = mockRates["XRP"]

\* C12 as stated: when the upstream call fails, the result has success = false
\* and mock = true and its rates map holds the reference price of exactly the
\* requested symbols that are in the table.
C12_DegradedHoldsRequestedOnly ==
  liveCall.pc = "done" /\ liveCall.upstream # "success" =>
    /\ ~liveCall.result.success
    /\ liveCall.result.mock
    /\ liveCall.result.rates = ReferencePricesOf(liveCall.symbols)

\* C12 amended: as stated for a non-empty symbol list; for an empty list the
\* rates map is the whole reference table.
C12_DegradedHoldsRequestedOrTable ==
  liveCall.pc = "done" /\ liveCall.upstream # "success" =>
    /\ ~liveCall.result.success
    /\ liveCall.result.mock
    /\ liveCall.result.rates = IF liveCall.symbols = {} THEN WholeTable
                                ELSE ReferencePricesOf(liveCall.symbols)

\* A failed call for a symbol of the table and one outside it.
C12_Witness ==
  /\ liveCall.pc = "done"
  /\ liveCall.upstream = "failure"
  /\ liveCall.symbols = {"XRP", "ZZZ"}
  /\ liveCall.result.rates["XRP"] = mockRates["XRP"]
  /\ liveCall.result.rates["ZZZ"] = Null
  /\ liveCall.result.rates["USD"] = Null

Remaining(p) == (sweep[p].idx + 1)..Len(sweep[p].alerts)
ThresholdCrossed(alert, rates) ==
  /\ rates[alert.symbol] # Null
  /\ \/ alert.condition = "above" /\ rates[alert.symbol] >= alert.targetValue
     \/ alert.condition = "below" /\ rates[alert.symbol] <= alert.targetValue

\* C13: when createNotification or setAlertInactive throws while a sweep is
\* processing one alert and an alert it fetched is still to come, the sweep goes
\* on with the next alert of its list.
C13_SweepSurvivesStoreFailure ==
  [][\A p \in Evaluators :
       (/\ sweep[p].pc \in {"notify", "flip"}
        /\ Remaining(p) # {}
        /\ sweep'[p] # sweep[p]
        /\ storeFailures' = storeFailures + 1)
       => /\ sweep'[p].pc = "eval"
          /\ sweep'[p].alerts = sweep[p].alerts
          /\ sweep'[p].idx = sweep[p].idx + 1
    ]_vars

\* C14: setAlertInactive returns true exactly when it changes the alert from
\* active to inactive: a call on an alert that is already inactive returns false.
C14_FlipIsConditional ==
  [][\A p \in Evaluators :
       (sweep[p].pc = "flip" /\ sweep'[p].pc = "emit")
       => (setAlertInactiveReturns(sweep[p].alerts[sweep[p].idx].id)
             <=> userAlerts[sweep[p].alerts[sweep[p].idx].id].isActive)
    ]_vars

C19_StoredTargetsPositive ==
  /\ \A a \in DOMAIN userAlerts :
       userAlerts[a].targetValue > 0 /\ userAlerts[a].condition \in {"above", "below"}
  /\ (response.status # 0 /\ response.targetValue \in {NaN, 0 - Scale, 0}) => response.status = 400

Ascending(points) ==
  \A i, j \in 1..Len(points) : i < j => points[i].timestamp <= points[j].timestamp
AllPositive(points) == \A i \in 1..Len(points) : points[i].price > 0
InputPoints == IF fill.kind = "array" THEN arrayPoints(fill.array) ELSE mapPoints(fill.map)

\* C17: the forward-then-backward fill is idempotent, in getTimeSeries and in
\* ratesToHistory alike: a series in which every day has a price > 0 comes back
\* unchanged, and the fill applied to its own result returns that result.
C17_FillIsIdempotent ==
  fill.pc = "done" =>
    IF fill.kind = "backend"
      THEN /\ fill.ratesAgain = fill.rates
           /\ (\A i \in 1..Len(fill.array) : isValidRate(fill.array[i])) => fill.rates = fill.array
      ELSE /\ fill.historyAgain = fill.history
           /\ (Ascending(InputPoints) /\ AllPositive(InputPoints)) => fill.history = InputPoints

\* ratesToHistory has filled a gap between two prices, and the fill of its
\* result has returned the result.
C17_Witness ==
  /\ fill.pc = "done"
  /\ fill.kind = "array"
  /\ Len(fill.array) = 3
  /\ Ascending(InputPoints)
  /\ fill.array[1].rate > 0 /\ fill.array[2].rate = 0 /\ fill.array[3].rate > fill.array[1].rate
  /\ fill.history[2].price = fill.array[1].rate
  /\ fill.historyAgain = fill.history

\* the nearest positive price before position i of the points, else after it
NearestPositive(points, i) ==
  LET before == {j \in 1..(i - 1) : points[j].price > 0}
      after == {j \in (i + 1)..Len(points) : points[j].price > 0}
  IN IF before # {} THEN points[CHOOSE j \in before : \A k \in before : k <= j].price
     ELSE IF after # {} THEN points[CHOOSE j \in after : \A k \in after : j <= k].price
     ELSE Null

\* C18: the points ratesToHistory returns are ascending by timestamp and every
\* price is > 0: a zero or negative rate is replaced by the nearest positive
\* price before it, or after it when none is before; an array input keeps its
\* number of points.
C18_HistoryAscendingAndPositive ==
  (fill.pc = "done" /\ fill.kind \in {"array", "map"}) =>
    /\ Ascending(fill.history)
    /\ AllPositive(fill.history)
    /\ fill.kind = "array" => Len(fill.history) = Len(fill.array)
    /\ Len(fill.history) = Len(InputPoints)
    /\ \A i \in 1..Len(fill.history) :
         LET sorted == sortPoints(InputPoints) IN
           fill.history[i].price = IF sorted[i].price > 0 THEN sorted[i].price
                                   ELSE NearestPositive(sorted, i)

\* C16: for every registration (S, h), the updates h has been invoked with are,
\* in arrival order, the updates for S that arrived while h was registered for
\* S: each such update invokes every handler of S exactly once and no handler
\* that is registered for another symbol only.
C16_DispatchInArrivalOrder ==
  /\ ~hist.long => \A k \in LogKeys : hist.got[k] = hist.due[k]
  /\ \A i, j \in 1..Len(hist.invoked) : i # j => hist.invoked[i] # hist.invoked[j]

\* the sockets of the hub that are CONNECTING or OPEN
ConnectingOrOpen ==
  (IF ws \in {"connecting", "open"} THEN 1 ELSE 0) + orphans["connecting"] + orphans["open"]

\* C20: at most one WebSocket the hub created is connecting or open at a time.
C20_OneSocketAtATime == ConnectingOrOpen <= 1

\* C21: whenever the connection this.ws holds is open, the symbols announced
\* on it ("subscribe:rates" symbols less the later "unsubscribe:rates" symbols)
\* are the tracked symbols; a first handler registered while connected is
\* announced also when the tracked set was empty just before.
C21_AnnouncedIsTracked ==
  (~hist.long /\ ws = "open") => hist.announced = subscribedSymbols

\* C26: the callback of a reconnect timer opens no connection when the tracked
\* set is empty.
C26_NoReconnectWithoutSymbols ==
  [][\A named \in BOOLEAN :
       (subscribedSymbols = {} /\ TimerFire(named)) => ws' = ws /\ orphans' = orphans
    ]_vars

\* C27: a call of an unsubscribe token that was invoked before removes no
\* handler, leaves the tracked set unchanged and sends no control message, also
\* when the same handler has been registered again for the same symbol.
C27_SpentTokenDoesNothing ==
  [][\A s \in HubSymbols, h \in Handlers :
       (/\ ~hist.long
        /\ Len(hist.trace) < MaxTrace
        /\ <<s, h>> \in SpentTokens
        /\ Unsubscribe(s, h)
        /\ Last(hist'.trace).sock = "spent")
       => /\ handlers' = handlers
          /\ subscribedSymbols' = subscribedSymbols
          /\ hist'.sent = <<>>
    ]_vars

\* C29: an update invokes every handler registered for its symbol, whichever of
\* them throw, and leaves the registrations as they are.
C29_DeliveryIsPerHandler ==
  [][\A own \in BOOLEAN, s \in HubSymbols, throwing \in SUBSET Handlers :
       (Len(handlers[s]) > 1 /\ Deliver(own, s, throwing))
       => Range(hist'.invoked) = Range(handlers[s]) /\ handlers' = handlers
    ]_vars

\* C22: when no sweep is running, an alert has a Notification if and only if it
\* is inactive, whichever store call of a sweep has thrown.
C22_NotifiedIffInactive ==
  AllIdle => \A a \in DOMAIN userAlerts : NotificationsOf(a) >= 1 <=> ~userAlerts[a].isActive

\* C28: a sweep whose getLiveRates result is degraded (reference prices, mock
\* flag set) ends at once and leaves alerts, Notifications and trigger events as
\* they were, so every active alert is still active for the next sweep.
C28_DegradedSweepTriggersNothing ==
  [][\A p \in Evaluators :
       (sweep[p].pc = "rates" /\ sweep'[p].mock)
       => /\ sweep'[p].pc = "idle"
          /\ UNCHANGED <<userAlerts, userNotifications, triggerEvents>>
    ]_vars

\* A degraded sweep has ended; the reference price of XRP is beyond the target
\* of an active "above" alert, which has no Notification and no event and is
\* among the alerts the next sweep fetches.
C28_Witness ==
  \E p \in Evaluators, a \in DOMAIN userAlerts :
    /\ sweep[p].pc = "idle"
    /\ sweep[p].mock
    /\ userAlerts[a].symbol = "XRP"
    /\ userAlerts[a].condition = "above"
    /\ mockRates["XRP"] >= userAlerts[a].targetValue
    /\ userAlerts[a].isActive
    /\ NotificationsOf(a) = 0
    /\ EventsOf(a) = 0
    /\ \E i \in DOMAIN getActiveAlertsBySymbols(getActiveAlertSymbols) :
         getActiveAlertsBySymbols(getActiveAlertSymbols)[i].id = a

\* C23: in the per-day tier a day whose historical call failed has no raw
\* value, and a raw value is a price > 0 that the call of its day returned.
C23_FailedDayIsHole ==
  \A i \in 1..Len(ts.rawRates) :
    /\ ~ts.dayOk[i] => ts.rawRates[i] = Null
    /\ ts.rawRates[i] # Null => ts.rawRates[i] > 0

\* the days before day i that have a raw value
EarlierRaw(i) == {j \in 1..(i - 1) : ts.rawRates[j] # Null}
AnyRaw == {j \in 1..Len(ts.rawRates) : ts.rawRates[j] # Null}
\* a live rate is a price > 0
HasLiveRate == isValidRate(ts.liveRate)

\* C24: after the gap fill of the per-day tier a day with a raw value has it;
\* a hole has the raw value of the latest earlier day that has one, else the
\* live rate when there is one, else the earliest raw value of the range.
C24_GapFillNearestEarlier ==
  (ts.pc = "done" /\ ts.filled # <<>>) =>
    /\ Len(ts.filled) = Len(ts.rawRates)
    /\ \A i \in 1..Len(ts.filled) :
         IF ts.rawRates[i] # Null THEN ts.filled[i] = ts.rawRates[i]
         ELSE IF EarlierRaw(i) # {}
           THEN ts.filled[i] = ts.rawRates[CHOOSE j \in EarlierRaw(i) : \A k \in EarlierRaw(i) : k <= j]
         ELSE IF HasLiveRate THEN ts.filled[i] = ts.liveRate
         ELSE AnyRaw # {} =>
                ts.filled[i] = ts.rawRates[CHOOSE j \in AnyRaw : \A k \in AnyRaw : j <= k]

\* Without a live rate, a range whose only raw value is that of its second
\* day: the leading hole and the trailing hole both have that value.
C24_Witness ==
  /\ ts.pc = "done"
  /\ ~HasLiveRate
  /\ Len(ts.rawRates) = 3
  /\ ts.rawRates[1] = Null /\ ts.rawRates[2] # Null /\ ts.rawRates[3] = Null
  /\ ts.filled = <<ts.rawRates[2], ts.rawRates[2], ts.rawRates[2]>>

\* C25: when the gap-filled series of the per-day tier has a missing day or is
\* flat, the result is a generated series over the whole range anchored at the
\* live price, or at the reference price when there is no live price;
\* otherwise the result is the gap-filled series.
C25_DegradedIsRegenerated ==
  (ts.pc = "done" /\ ts.filled # <<>>) =>
    IF hasMissingData(ts.filled) \/ isFlat(ts.filled)
      THEN /\ ts.anchor # Null
           /\ ts.anchor = IF HasLiveRate THEN ts.liveRate
                                        ELSE getMockRates({ts.symbol})[ts.symbol]
           /\ DOMAIN ts.rates = Range(ts.dates)
           /\ \A d \in DOMAIN ts.rates : isValidRate(ts.rates[d])
      ELSE /\ DOMAIN ts.rates = Range(ts.dates)
           /\ \A i \in 1..Len(ts.dates) : ts.rates[ts.dates[i]] = ts.filled[i]

\* C30: once apiLimitReached is true it is true in every later state, and a
\* getQuote, getTimeSeries or searchSymbol call made while it is true returns
\* mock data without a request to the upstream.
C30_LimitFlagIsSticky ==
  [][/\ apiLimitReached => apiLimitReached'
     /\ \A c \in Callers :
          (apiLimitReached /\ calls[c].pc = "idle" /\ calls'[c].pc # "idle")
          => /\ calls'[c].pc = "done"
             /\ ~calls'[c].fetched
             /\ calls'[c].result.mock
    ]_vars

\* The flag is set; a call made before it was set has returned upstream data
\* since, and a call made after it has returned mock data without a fetch.
C30_Witness ==
  /\ apiLimitReached
  /\ \E c, d \in Callers :
       /\ calls[c].pc = "done" /\ ~calls[c].fetched /\ calls[c].result.mock
       /\ calls[d].pc = "done" /\ calls[d].fetched /\ calls[d].resp = "data"

====
